---- MODULE Spec2Model ----
(***************************************************************************)
(* The adaptive harvesting pipeline of Git-User-md/playlist:               *)
(*   extract_m3u8.py        - adaptive_runner / process_episode that probe *)
(*                            player pages for a manifest URL              *)
(*   download_m3u8_files.py - adaptive_runner / process_episode that fetch *)
(*                            and rewrite the manifests                    *)
(* One behaviour of Spec is one run of one of the two scripts (prog).      *)
(***************************************************************************)
EXTENDS Integers, Sequences, FiniteSets, TLC

(* ---------------- program constants ---------------- *)
REQUEST_TIMEOUT == 8000
\* page.goto(url, wait_until="domcontentloaded", timeout=60_000)
NAV_TIMEOUT == 60000
EX_INITIAL_CONCURRENCY == 4
EX_MAX_CONCURRENCY == 8
EX_MIN_CONCURRENCY == 1
EX_CONCURRENCY_STEP == 1
EX_MAX_PASSES == 5

DL_INITIAL_CONCURRENCY == 8
DL_MAX_CONCURRENCY == 10
DL_MIN_CONCURRENCY == 1
DL_CONCURRENCY_STEP == 1
DL_MAX_PASSES == 5
RETRIES == 3

(* ---------------- bounds of the model ---------------- *)
\* largest catalog of the extraction run
MaxEpisodes == 2
\* largest catalog of the download run
MaxJobs == 5
\* longest candidate list of the single-job run
MaxCands == 3

(* ---------------- values ---------------- *)
None == "None"

\* a results entry of the extraction run: missing key, None, or the dict
\* {"m3u8_url": ..., "player_used": ...}
AbsentR == [kind |-> "absent"]
NullR == [kind |-> "null"]
Resolved(u, l) == [kind |-> "dict", m3u8_url |-> u, player_used |-> l]

\* catalog entries of the download run, as the extraction run writes them:
\* null, or a dict with "m3u8_url"
InfoKinds == {"null", "url"}

\* urlparse(url): only the parts the program reads
Url(s, n) == [scheme |-> s, netloc |-> n]
Player(l, u) == [label |-> l, url |-> u]

Netlocs == {"d1", "d2"}

\* player names (keys of a players dict)
Labels == {"A", "B", "C", "D"}

\* manifest URLs a page may request (request.url ending in .m3u8)
M3U8Urls == {"m1.m3u8", "m2.m3u8"}

\* candidate lists (players dicts, in insertion order; labels are dict keys)
PlayerListSeq ==
  << << >>,
     << Player("A", Url("https", "d1")), Player("B", Url("https", "d2")) >>,
     << Player("B", Url("http", "d1")), Player("A", Url("https", "d1")) >> >>

get_domain(url) == url.netloc

Range(s) == { s[i] : i \in 1..Len(s) }

PlayerLists == Range(PlayerListSeq)

VARIABLES
  prog,          \* which script runs: "extract" or "download"
  episodes,      \* the job list handed to adaptive_runner (job ids)
  players,       \* extract: job -> candidate list
  info,          \* download: job -> catalog entry
  concurrency,   \* adaptive_runner: concurrency
  passes,        \* adaptive_runner: passes
  pending,       \* adaptive_runner: pending
  r_pc,          \* adaptive_runner: "loop", "gather", "done", "crashed"
  sema,          \* free slots of the pass's asyncio.Semaphore
  t_pc,          \* process_episode coroutine of each job
  ordered,       \* process_episode: ordered
  pos,           \* process_episode: index of the candidate being tried
  m3u8,          \* process_episode: m3u8, what extract_m3u8 last returned
  page,          \* process_episode: the job's page is open
  results,       \* extract: results[channel][show] mapping
  dl_results,    \* download: results mapping (key -> bool)
  domain_cache,  \* domain_cache mapping
  attempts,      \* history: process_episode calls made for each job
  writes,        \* history: results writes of the job's current call
  promoted,      \* history: label the for/if/break moved to the front, or None
  tried,         \* history: extract_m3u8 calls of the job's current call
  \* one call of safe_name
  title,         \* safe_name: title, a sequence of characters
  name,          \* safe_name: the value returned
  calls,         \* history: times safe_name was applied
  \* one job of the download run past its jitter sleep
  f_pc,          \* position in download_m3u8 / rewrite_m3u8
  url,           \* download_m3u8: url (info["m3u8_url"])
  attempt,       \* download_m3u8: attempt
  outfile,       \* the file at outpath
  host,          \* download_m3u8: host, as returned to process_episode
  f_result,      \* results[key] of the job
  gets,          \* history: session.get calls of this download_m3u8 call
  slept,         \* history: jitter sleeps of this download_m3u8 call
  response,      \* history: what the last session.get came to
  \* one call of extract_m3u8
  a_pc,          \* position in extract_m3u8
  listener,      \* on_request is registered on the page
  future,        \* extract_m3u8: future
  seen,          \* history: the requests on_request was called with
  ret            \* how the call ended: pending, url, none, raised

namevars == << title, name, calls >>
fetchvars == << f_pc, url, attempt, outfile, host, f_result, gets, slept,
               response >>
attvars == << a_pc, listener, future, seen, ret >>
callvars == << namevars, fetchvars, attvars >>

runvars == << prog, episodes, players, info, concurrency, passes, pending, r_pc,
              sema, t_pc, ordered, pos, m3u8, page, results, dl_results,
              domain_cache, attempts, writes, promoted, tried >>

vars == << runvars, callvars >>

Jobs == 1..Len(episodes)

\* the sequence 1..n
Iota(n) == [i \in 1..n |-> i]

\* adaptive_runner called with n jobs: concurrency, passes, pending; no
\* coroutine yet, empty results
Start(n) ==
  /\ episodes = Iota(n)
  /\ t_pc = [j \in 1..n |-> "idle"]
  /\ ordered = [j \in 1..n |-> << >>]
  /\ pos = [j \in 1..n |-> 0]
  /\ m3u8 = [j \in 1..n |-> None]
  /\ page = [j \in 1..n |-> FALSE]
  /\ results = [j \in 1..n |-> AbsentR]
  /\ dl_results = [j \in 1..n |-> "absent"]
  /\ attempts = [j \in 1..n |-> 0]
  /\ writes = [j \in 1..n |-> 0]
  /\ promoted = [j \in 1..n |-> None]
  /\ tried = [j \in 1..n |-> << >>]
  /\ concurrency = IF prog = "extract" THEN EX_INITIAL_CONCURRENCY
                                       ELSE DL_INITIAL_CONCURRENCY
  /\ passes = 0
  /\ pending = episodes
  /\ r_pc = "loop"
  /\ sema = 0

\* no call of safe_name, no download of one job and no call of extract_m3u8
\* is followed step by step
NoSafeName == title = << >> /\ name = << >> /\ calls = 0
NoFetch ==
  /\ f_pc = "off" /\ url = Url("", "") /\ attempt = 0
  /\ outfile = [state |-> "absent"]
  /\ host = << >> /\ f_result = "absent" /\ gets = 0 /\ slept = 0
  /\ response = [kind |-> "none", status |-> 0]
NoAttempt ==
  /\ a_pc = "off" /\ listener = FALSE
  /\ future = [done |-> FALSE, result |-> << >>]
  /\ seen = << >>
  /\ ret = [kind |-> "pending", url |-> << >>]
NoCall == NoSafeName /\ NoFetch /\ NoAttempt

\* adaptive_runner is not running: no job, nothing pending
NoRun ==
  /\ prog = "download" /\ Start(0)
  /\ players = << >> /\ info = << >>
  /\ domain_cache = [d \in Netlocs |-> None]

\* The catalogs of a run. No step of a run depends on the position of a job
\* in the catalog (any waiting coroutine may take a free slot), so of all the
\* orders of the same entries one is kept: players dicts in the order of
\* PlayerListSeq, null entries of the download catalog first.
ExCatalogs(n) ==
  { c \in [1..n -> 1..Len(PlayerListSeq)] : \A a, b \in 1..n : a < b => c[a] <= c[b] }
DlCatalogs(n) ==
  { c \in [1..n -> InfoKinds] : \A a, b \in 1..n : (a < b /\ c[a] = "url") => c[b] = "url" }

Init ==
  /\ prog \in {"extract", "download"}
  /\ \E n \in 0..(IF prog = "extract" THEN MaxEpisodes ELSE MaxJobs) :
       /\ Start(n)
       /\ IF prog = "extract"
            THEN /\ \E c \in ExCatalogs(n) : players = [j \in 1..n |-> PlayerListSeq[c[j]]]
                 /\ info = [j \in 1..n |-> "null"]
            ELSE /\ info \in DlCatalogs(n)
                 /\ players = [j \in 1..n |-> << >>]
  /\ domain_cache = [d \in Netlocs |-> None]
  /\ NoCall

\* every players dict of at most MaxCands candidates
AllPlayerLists ==
  LET pool == { Player(l, Url("https", n)) : l \in Labels, n \in Netlocs }
      seqs == UNION { [1..k -> pool] : k \in 0..MaxCands }
  IN { s \in seqs : \A a, b \in 1..Len(s) : s[a].label = s[b].label => a = b }

\* the extraction run of a catalog of one job, whatever its candidates, with
\* the cache in any state earlier jobs may have left it in
ResolveInit ==
  /\ prog = "extract"
  /\ Start(1)
  /\ players \in [1..1 -> AllPlayerLists]
  /\ info = << "null" >>
  /\ domain_cache \in [Netlocs -> Labels \cup {None}]
  /\ NoCall

(* ======================= extract_m3u8.py ======================= *)

\* index of the first candidate whose cached label for its domain is its own
\* label, 0 when there is none (the for/if/break of process_episode)
FirstCached(cands, cache) ==
  LET hits == { i \in 1..Len(cands) : cache[get_domain(cands[i].url)] = cands[i].label }
  IN IF hits = {} THEN 0 ELSE CHOOSE i \in hits : \A k \in hits : i <= k

\* MoveToFront exchanging the hit with the head of the list
MoveToFrontSwap(cands, i) ==
  [k \in 1..Len(cands) |-> IF k = 1 THEN cands[i]
                            ELSE IF k = i THEN cands[1] ELSE cands[k]]

\* ordered.insert(0, ordered.pop(i))
MoveToFront(cands, i) ==
  << cands[i] >> \o SubSeq(cands, 1, i - 1) \o SubSeq(cands, i + 1, Len(cands))

\* the attempt order of process_episode
Prioritize(cands, cache) ==
  LET i == FirstCached(cands, cache)
  IN IF i = 0 THEN cands ELSE MoveToFront(cands, i)

\* the label of the candidate the for/if/break moves to the front, None when
\* no candidate is the cached one of its domain
Promoted(cands, cache) ==
  LET i == FirstCached(cands, cache)
  IN IF i = 0 THEN None ELSE cands[i].label

\* AttemptWait with a shorter wait for the promoted candidate
AttemptWaitTiered(is_promoted) ==
  IF is_promoted THEN REQUEST_TIMEOUT \div 2 ELSE REQUEST_TIMEOUT

\* the time in ms extract_m3u8 waits for the manifest request:
\* asyncio.wait_for(future, REQUEST_TIMEOUT / 1000), whatever the candidate
AttemptWait(is_promoted) == REQUEST_TIMEOUT

\* one call extract_m3u8(page, url) of the for loop of process_episode
Call(cand, hit) ==
  [label |-> cand.label, promoted |-> cand.label = hit,
   nav |-> NAV_TIMEOUT, wait |-> AttemptWait(cand.label = hit)]

\* ExAdjust without the lower guard of the elif
ExAdjustNoFloor(c, success, total) ==
  IF success = total /\ c < EX_MAX_CONCURRENCY THEN c + EX_CONCURRENCY_STEP
  ELSE IF success < total THEN c - EX_CONCURRENCY_STEP
  ELSE c

\* the AIMD step at the end of a pass of the extraction run
ExAdjust(c, success, total) ==
  IF success = total /\ c < EX_MAX_CONCURRENCY THEN c + EX_CONCURRENCY_STEP
  ELSE IF success < total /\ c > EX_MIN_CONCURRENCY THEN c - EX_CONCURRENCY_STEP
  ELSE c

\* ExIsFailed looking only for the key of the episode
ExIsFailedNoKey(data) == data.kind = "absent"

\* "not data or 'm3u8_url' not in data"
ExIsFailed(data) == data.kind # "dict"

\* the jobs whose coroutine holds a slot of the semaphore
Active == { j \in Jobs : t_pc[j] \in {"newpage", "try", "close", "close_exc",
                                      "fetch"} }

\* ExLoopCond letting one pass too many through
ExLoopCondOffByOne(pend, n) == pend # << >> /\ n <= EX_MAX_PASSES

\* the while condition of adaptive_runner
ExLoopCond(pend, n) == pend # << >> /\ n < EX_MAX_PASSES

\* ExSlots sized by the ceiling instead of the current budget
ExSlotsMax(c) == EX_MAX_CONCURRENCY

\* asyncio.Semaphore(concurrency): the slots of a pass
ExSlots(c) == c

\* ExRelease losing the slot
ExReleaseLost(s) == s

\* leaving "async with sema": the slot goes back to the semaphore
ExRelease(s) == s + 1

\* while pending and passes < MAX_PASSES: passes += 1; sema = Semaphore(concurrency);
\* gather(process_episode(...) for ... in pending)
ExStartPass ==
  /\ prog = "extract" /\ r_pc = "loop"
  /\ ExLoopCond(pending, passes)
  /\ passes' = passes + 1
  /\ sema' = ExSlots(concurrency)
  /\ t_pc' = [j \in Jobs |-> IF j \in Range(pending) THEN "wait" ELSE t_pc[j]]
  /\ attempts' = [j \in Jobs |-> IF j \in Range(pending) THEN attempts[j] + 1
                                                         ELSE attempts[j]]
  /\ writes' = [j \in Jobs |-> IF j \in Range(pending) THEN 0 ELSE writes[j]]
  /\ r_pc' = "gather"
  /\ UNCHANGED << callvars, promoted, tried, prog, episodes, m3u8, players, info, concurrency, pending, ordered,
                  pos, page, results, dl_results, domain_cache >>

\* async with sema: the coroutine takes a free slot and awaits new_page()
ExAcquire(j) ==
  /\ prog = "extract" /\ t_pc[j] = "wait" /\ sema > 0
  /\ sema' = sema - 1
  /\ t_pc' = [t_pc EXCEPT ![j] = "newpage"]
  /\ UNCHANGED << callvars, promoted, tried, prog, episodes, m3u8, players, info, concurrency, passes, pending,
                  r_pc, ordered, pos, page, results, dl_results, domain_cache,
                  attempts, writes >>

\* new_page() returned: compute ordered from the cache as it is now; with no
\* candidate the loop body never runs and the job is recorded None
ExNewPage(j) ==
  /\ prog = "extract" /\ t_pc[j] = "newpage"
  /\ page' = [page EXCEPT ![j] = TRUE]
  /\ ordered' = [ordered EXCEPT ![j] = Prioritize(players[j], domain_cache)]
  /\ IF players[j] = << >>
       THEN /\ results' = [results EXCEPT ![j] = NullR]
            /\ writes' = [writes EXCEPT ![j] = @ + 1]
            /\ pos' = pos
            /\ t_pc' = [t_pc EXCEPT ![j] = "close"]
       ELSE /\ pos' = [pos EXCEPT ![j] = 1]
            /\ t_pc' = [t_pc EXCEPT ![j] = "try"]
            /\ UNCHANGED << results, writes >>
  /\ promoted' = [promoted EXCEPT ![j] = Promoted(players[j], domain_cache)]
  /\ tried' = [tried EXCEPT ![j] = << >>]
  /\ UNCHANGED << callvars, prog, episodes, m3u8, players, info, concurrency, passes, pending,
                  r_pc, sema, dl_results, domain_cache, attempts >>

\* CacheUpdate forgetting the write
CacheUpdateNone(cache, cand) == cache

\* domain_cache[get_domain(url)] = player_name
CacheUpdate(cache, cand) == [cache EXCEPT ![get_domain(cand.url)] = cand.label]

\* extract_m3u8(page, url) returned a manifest URL: the candidate wins
ExTrySuccess(j, found) ==
  /\ prog = "extract" /\ t_pc[j] = "try"
  /\ m3u8' = [m3u8 EXCEPT ![j] = found]
  /\ LET cand == ordered[j][pos[j]] IN
       /\ domain_cache' = CacheUpdate(domain_cache, cand)
       /\ results' = [results EXCEPT ![j] = Resolved(found, cand.label)]
  /\ writes' = [writes EXCEPT ![j] = @ + 1]
  /\ t_pc' = [t_pc EXCEPT ![j] = "close"]
  /\ tried' = [tried EXCEPT ![j] = Append(@, Call(ordered[j][pos[j]], promoted[j]))]
  /\ UNCHANGED << callvars, promoted, prog, episodes, players, info, concurrency, passes, pending,
                  r_pc, sema, ordered, pos, page, dl_results, attempts >>

\* extract_m3u8 returned None (timeout): next candidate, or None is recorded
\* after the last one
ExTryTimeout(j) ==
  /\ prog = "extract" /\ t_pc[j] = "try"
  /\ IF pos[j] < Len(ordered[j])
       THEN /\ pos' = [pos EXCEPT ![j] = @ + 1]
            /\ UNCHANGED << results, writes, t_pc >>
       ELSE /\ results' = [results EXCEPT ![j] = NullR]
            /\ writes' = [writes EXCEPT ![j] = @ + 1]
            /\ t_pc' = [t_pc EXCEPT ![j] = "close"]
            /\ pos' = pos
  /\ m3u8' = [m3u8 EXCEPT ![j] = None]
  /\ tried' = [tried EXCEPT ![j] = Append(@, Call(ordered[j][pos[j]], promoted[j]))]
  /\ UNCHANGED << callvars, promoted, prog, episodes, players, info, concurrency, passes, pending,
                  r_pc, sema, ordered, page, dl_results, domain_cache, attempts >>

\* extract_m3u8 raised an exception that is no timeout (page.goto failing with
\* a navigation error): it leaves the for loop through the finally clause
ExTryError(j) ==
  /\ prog = "extract" /\ t_pc[j] = "try"
  /\ t_pc' = [t_pc EXCEPT ![j] = "close_exc"]
  /\ tried' = [tried EXCEPT ![j] = Append(@, Call(ordered[j][pos[j]], promoted[j]))]
  /\ UNCHANGED << callvars, promoted, prog, episodes, m3u8, players, info, concurrency, passes, pending,
                  r_pc, sema, ordered, pos, page, results, dl_results,
                  domain_cache, attempts, writes >>

\* PageAfterClose closing the page only when the try block ended normally
PageAfterCloseLeak(pc) == pc = "close_exc"

\* the page is open after "finally: await page.close()"
PageAfterClose(pc) == FALSE

\* finally: await page.close(); the slot is released; an exception reaches
\* gather, which raises it in adaptive_runner at once
ExClosePage(j) ==
  /\ prog = "extract" /\ t_pc[j] \in {"close", "close_exc"}
  /\ page' = [page EXCEPT ![j] = PageAfterClose(t_pc[j])]
  /\ sema' = ExRelease(sema)
  /\ t_pc' = [t_pc EXCEPT ![j] = IF t_pc[j] = "close" THEN "done" ELSE "raised"]
  /\ r_pc' = IF t_pc[j] = "close_exc" /\ r_pc = "gather" THEN "crashed" ELSE r_pc
  /\ ordered' = [ordered EXCEPT ![j] = << >>]
  /\ pos' = [pos EXCEPT ![j] = 0]
  /\ m3u8' = [m3u8 EXCEPT ![j] = None]
  /\ UNCHANGED << callvars, promoted, tried, prog, episodes, players, info, concurrency, passes, pending,
                  results, dl_results, domain_cache, attempts, writes >>

\* asyncio.run cancels the coroutines still running after adaptive_runner
\* raised: the finally clause closes the page and the slot is released
ExCancel(j) ==
  /\ prog = "extract" /\ r_pc = "crashed"
  /\ t_pc[j] \in {"wait", "newpage", "try", "close", "close_exc"}
  /\ page' = [page EXCEPT ![j] = FALSE]
  /\ sema' = IF j \in Active THEN ExRelease(sema) ELSE sema
  /\ t_pc' = [t_pc EXCEPT ![j] = "cancelled"]
  /\ ordered' = [ordered EXCEPT ![j] = << >>]
  /\ pos' = [pos EXCEPT ![j] = 0]
  /\ m3u8' = [m3u8 EXCEPT ![j] = None]
  /\ UNCHANGED << callvars, promoted, tried, prog, episodes, players, info, concurrency, passes, pending,
                  r_pc, results, dl_results, domain_cache, attempts, writes >>

\* GatherDone returning with the first coroutine that is done
GatherDoneFirst == \E j \in Range(pending) : t_pc[j] = "done"

\* await asyncio.gather(...) returns: every coroutine of the pass returned
GatherDone == \A j \in Range(pending) : t_pc[j] = "done"

\* ExFailed requeueing every job of the pass
ExFailedAll == pending

\* the failed list of a pass
ExFailed == SelectSeq(pending, LAMBDA j : ExIsFailed(results[j]))

\* gather returned: failed, success, the AIMD step, pending = failed
ExEndPass ==
  /\ prog = "extract" /\ r_pc = "gather"
  /\ GatherDone
  /\ LET total == Len(pending)
         failed == ExFailed
         success == total - Len(failed)
     IN /\ concurrency' = ExAdjust(concurrency, success, total)
        /\ pending' = failed
  /\ t_pc' = [j \in Jobs |-> "idle"]
  /\ r_pc' = "loop"
  /\ UNCHANGED << callvars, promoted, tried, prog, episodes, m3u8, players, info, passes, sema, ordered, pos,
                  page, results, dl_results, domain_cache, attempts, writes >>

\* the while condition is false: adaptive_runner returns
ExReturn ==
  /\ prog = "extract" /\ r_pc = "loop"
  /\ ~ExLoopCond(pending, passes)
  /\ r_pc' = "done"
  /\ UNCHANGED << callvars, promoted, tried, prog, episodes, m3u8, players, info, concurrency, passes, pending,
                  sema, t_pc, ordered, pos, page, results, dl_results,
                  domain_cache, attempts, writes >>

ExNext ==
  \/ ExStartPass
  \/ \E j \in Jobs : ExAcquire(j)
  \/ \E j \in Jobs : ExNewPage(j)
  \/ \E j \in Jobs : \E found \in M3U8Urls : ExTrySuccess(j, found)
  \/ \E j \in Jobs : ExTryTimeout(j)
  \/ \E j \in Jobs : ExTryError(j)
  \/ \E j \in Jobs : ExClosePage(j)
  \/ \E j \in Jobs : ExCancel(j)
  \/ ExEndPass
  \/ ExReturn

(* ================ extract_m3u8.py: extract_m3u8 ================ *)

\* most requests the page issues during one call of extract_m3u8
MaxRequests == 2

M3U8_EXT == ".m3u8"

\* URLs the page may request, in pieces: two manifests, a manifest with a
\* query string after the extension, and a script
RequestUrls ==
  { << "https://cdn/m1", M3U8_EXT >>,
    << "https://cdn/m2", M3U8_EXT >>,
    << "https://cdn/m1", M3U8_EXT, "?t=1" >>,
    << "https://cdn/player", ".js" >> }

\* request.url.endswith(".m3u8")
EndsWithM3u8(u) == u # << >> /\ u[Len(u)] = M3U8_EXT

\* one call extract_m3u8(page, url): loop.create_future(); nothing registered
\* yet
AttemptInit ==
  /\ NoRun /\ NoSafeName /\ NoFetch
  /\ a_pc = "start" /\ listener = FALSE
  /\ future = [done |-> FALSE, result |-> << >>]
  /\ seen = << >>
  /\ ret = [kind |-> "pending", url |-> << >>]

\* page.on("request", on_request), then page.goto(...) is awaited
Attach ==
  /\ a_pc = "start"
  /\ listener' = TRUE
  /\ a_pc' = "goto"
  /\ UNCHANGED << runvars, namevars, fetchvars, future, seen, ret >>

\* on_request: "if request.url.endswith(".m3u8") and not future.done():
\* future.set_result(request.url)"
SetResult(fut, u) ==
  IF EndsWithM3u8(u) /\ ~fut.done THEN [done |-> TRUE, result |-> u] ELSE fut

\* the page issues a request while the call awaits something: on_request is
\* called with it
OnRequest(u) ==
  /\ a_pc \in {"goto", "settle", "click", "wait"} /\ listener
  /\ Len(seen) < MaxRequests
  /\ seen' = Append(seen, u)
  /\ future' = SetResult(future, u)
  /\ UNCHANGED << runvars, namevars, fetchvars, a_pc, listener, ret >>

\* on_request is registered after "finally: page.remove_listener(...)"
ListenerAfter(kind) == FALSE

\* the call ends: return value or exception, and the finally clause
Conclude(kind, u) ==
  /\ ret' = [kind |-> kind, url |-> u]
  /\ listener' = ListenerAfter(kind)
  /\ a_pc' = "returned"

\* page.goto returned: wait_for_timeout(400) is awaited
GotoOk ==
  /\ a_pc = "goto"
  /\ a_pc' = "settle"
  /\ UNCHANGED << runvars, namevars, fetchvars, listener, future, seen, ret >>

\* page.goto raised playwright's TimeoutError: except clause, return None
GotoTimeout ==
  /\ a_pc = "goto"
  /\ Conclude("none", << >>)
  /\ UNCHANGED << runvars, namevars, fetchvars, future, seen >>

\* page.goto, wait_for_timeout or mouse.click raised an Error that is no
\* timeout: no except clause takes it
AwaitError ==
  /\ a_pc \in {"goto", "settle", "click"}
  /\ Conclude("raised", << >>)
  /\ UNCHANGED << runvars, namevars, fetchvars, future, seen >>

\* wait_for_timeout(400) returned: the click at the centre is awaited
Settled ==
  /\ a_pc = "settle"
  /\ a_pc' = "click"
  /\ UNCHANGED << runvars, namevars, fetchvars, listener, future, seen, ret >>

\* mouse.click returned: asyncio.wait_for(future, REQUEST_TIMEOUT / 1000)
Clicked ==
  /\ a_pc = "click"
  /\ a_pc' = "wait"
  /\ UNCHANGED << runvars, namevars, fetchvars, listener, future, seen, ret >>

\* wait_for returns the result of the future
WaitResult ==
  /\ a_pc = "wait" /\ future.done
  /\ Conclude("url", future.result)
  /\ UNCHANGED << runvars, namevars, fetchvars, future, seen >>

\* wait_for raised asyncio.TimeoutError, the future not being done: except
\* clause, return None
WaitTimeout ==
  /\ a_pc = "wait" /\ ~future.done
  /\ Conclude("none", << >>)
  /\ UNCHANGED << runvars, namevars, fetchvars, future, seen >>

AttemptNext ==
  \/ Attach
  \/ \E u \in RequestUrls : OnRequest(u)
  \/ GotoOk
  \/ GotoTimeout
  \/ AwaitError
  \/ Settled
  \/ Clicked
  \/ WaitResult
  \/ WaitTimeout

SpecAttempt == AttemptInit /\ [][AttemptNext]_vars

(* ==================== download_m3u8_files.py ==================== *)

\* DlAdjust backing off by two steps
DlAdjustDouble(c, success, total) ==
  IF success = total /\ c < DL_MAX_CONCURRENCY THEN c + DL_CONCURRENCY_STEP
  ELSE IF success < total /\ c > DL_MIN_CONCURRENCY
    THEN c - 2 * DL_CONCURRENCY_STEP
  ELSE c

\* the AIMD step at the end of a pass of the download run
DlAdjust(c, success, total) ==
  IF success = total /\ c < DL_MAX_CONCURRENCY THEN c + DL_CONCURRENCY_STEP
  ELSE IF success < total /\ c > DL_MIN_CONCURRENCY THEN c - DL_CONCURRENCY_STEP
  ELSE c

\* DlNoManifest sending every job to download_m3u8
DlNoManifestNever(i) == FALSE

\* "not info or 'm3u8_url' not in info"
DlNoManifest(i) == i # "url"

\* the while condition of adaptive_runner
DlLoopCond(pend, n) == pend # << >> /\ n < DL_MAX_PASSES

\* while pending and passes < MAX_PASSES: passes += 1; sem = Semaphore(concurrency);
\* gather(process_episode(sem, session, job, results) for job in pending)
DlStartPass ==
  /\ prog = "download" /\ r_pc = "loop"
  /\ DlLoopCond(pending, passes)
  /\ passes' = passes + 1
  /\ sema' = concurrency
  /\ t_pc' = [j \in Jobs |-> IF j \in Range(pending) THEN "wait" ELSE t_pc[j]]
  /\ attempts' = [j \in Jobs |-> IF j \in Range(pending) THEN attempts[j] + 1
                                                         ELSE attempts[j]]
  /\ writes' = [j \in Jobs |-> IF j \in Range(pending) THEN 0 ELSE writes[j]]
  /\ r_pc' = "gather"
  /\ UNCHANGED << callvars, promoted, tried, prog, episodes, m3u8, players, info, concurrency, pending, ordered,
                  pos, page, results, dl_results, domain_cache >>

\* async with sema: a job without manifest URL is recorded False and returns
\* without awaiting anything; any other job sleeps its jitter and calls
\* download_m3u8
DlAcquire(j) ==
  /\ prog = "download" /\ t_pc[j] = "wait" /\ sema > 0
  /\ IF DlNoManifest(info[j])
       THEN /\ dl_results' = [dl_results EXCEPT ![j] = "False"]
            /\ writes' = [writes EXCEPT ![j] = @ + 1]
            /\ t_pc' = [t_pc EXCEPT ![j] = "done"]
            /\ sema' = sema
       ELSE /\ sema' = sema - 1
            /\ t_pc' = [t_pc EXCEPT ![j] = "fetch"]
            /\ UNCHANGED << dl_results, writes >>
  /\ UNCHANGED << callvars, promoted, tried, prog, episodes, m3u8, players, info, concurrency, passes, pending,
                  r_pc, ordered, pos, page, results, domain_cache, attempts >>

\* what the try block of process_episode can come to: download_m3u8 and
\* rewrite_m3u8 returned, download_m3u8 raised after its last attempt, or
\* rewrite_m3u8 raised
DlOutcomes == {"saved", "download_raised", "rewrite_raised"}

\* results[key] = True after the try block, False in the except clause; the
\* slot is released
DlFinish(j, outcome) ==
  /\ prog = "download" /\ t_pc[j] = "fetch"
  /\ dl_results' = [dl_results EXCEPT ![j] = IF outcome = "saved" THEN "True"
                                                                ELSE "False"]
  /\ writes' = [writes EXCEPT ![j] = @ + 1]
  /\ t_pc' = [t_pc EXCEPT ![j] = "done"]
  /\ sema' = sema + 1
  /\ UNCHANGED << callvars, promoted, tried, prog, episodes, m3u8, players, info, concurrency, passes, pending,
                  r_pc, ordered, pos, page, results, domain_cache, attempts >>

\* failed = [job for job in pending if not results[key]]
DlFailed == SelectSeq(pending, LAMBDA j : dl_results[j] # "True")

\* gather returned: failed, success, the AIMD step, pending = failed
DlEndPass ==
  /\ prog = "download" /\ r_pc = "gather"
  /\ GatherDone
  /\ LET total == Len(pending)
         failed == DlFailed
         success == total - Len(failed)
     IN /\ concurrency' = DlAdjust(concurrency, success, total)
        /\ pending' = failed
  /\ t_pc' = [j \in Jobs |-> "idle"]
  /\ r_pc' = "loop"
  /\ UNCHANGED << callvars, promoted, tried, prog, episodes, m3u8, players, info, passes, sema, ordered, pos,
                  page, results, dl_results, domain_cache, attempts, writes >>

\* the while condition is false: adaptive_runner returns
DlReturn ==
  /\ prog = "download" /\ r_pc = "loop"
  /\ ~DlLoopCond(pending, passes)
  /\ r_pc' = "done"
  /\ UNCHANGED << callvars, promoted, tried, prog, episodes, m3u8, players, info, concurrency, passes, pending,
                  sema, t_pc, ordered, pos, page, results, dl_results,
                  domain_cache, attempts, writes >>

DlNext ==
  \/ DlStartPass
  \/ \E j \in Jobs : DlAcquire(j)
  \/ \E j \in Jobs : \E outcome \in DlOutcomes : DlFinish(j, outcome)
  \/ DlEndPass
  \/ DlReturn

Next == ExNext \/ DlNext

Spec == Init /\ [][Next]_vars

\* the run of one job (nothing is left to cancel when it raises)
ResolveNext ==
  \/ ExStartPass
  \/ ExAcquire(1)
  \/ ExNewPage(1)
  \/ \E found \in M3U8Urls : ExTrySuccess(1, found)
  \/ ExTryTimeout(1)
  \/ ExTryError(1)
  \/ ExClosePage(1)
  \/ ExEndPass
  \/ ExReturn

SpecResolve == ResolveInit /\ [][ResolveNext]_vars

\* the event loop keeps running whatever is ready, and every awaited
\* operation (new_page, extract_m3u8, page.close, the download) comes back
FairSpec == Spec /\ WF_vars(Next)

(* ============ download_m3u8_files.py: safe_name ============ *)

\* longest title of the safe_name run
MaxTitle == 4

\* characters of a title: a lower-case letter, an upper-case letter, a digit,
\* the underscore, and three characters outside [a-zA-Z0-9_]
Chars == {"a", "Z", "7", "_", "-", " ", "e'"}

\* [a-zA-Z0-9]
IsAlnum(c) == c \in {"a", "Z", "7"}

\* s without its leading characters outside [a-zA-Z0-9]
RECURSIVE SkipRun(_)
SkipRun(s) ==
  IF s = << >> \/ IsAlnum(Head(s)) THEN s ELSE SkipRun(Tail(s))

\* re.sub(r"[^a-zA-Z0-9]+", "_", s): every maximal run of characters outside
\* [a-zA-Z0-9] becomes one underscore
RECURSIVE ReSub(_)
ReSub(s) ==
  IF s = << >> THEN << >>
  ELSE IF IsAlnum(Head(s)) THEN << Head(s) >> \o ReSub(Tail(s))
  ELSE << "_" >> \o ReSub(SkipRun(Tail(s)))

\* s.strip(c): s without its leading and trailing characters c
RECURSIVE LStrip(_, _)
LStrip(s, c) == IF s # << >> /\ Head(s) = c THEN LStrip(Tail(s), c) ELSE s
RECURSIVE RStrip(_, _)
RStrip(s, c) ==
  IF s # << >> /\ s[Len(s)] = c THEN RStrip(SubSeq(s, 1, Len(s) - 1), c) ELSE s
StripChar(s, c) == RStrip(LStrip(s, c), c)

\* safe_name without the strip("_")
safe_nameNoStrip(t) == ReSub(t)

\* re.sub(r"[^a-zA-Z0-9]+", "_", title).strip("_")
safe_name(t) == StripChar(ReSub(t), "_")

\* every title of at most MaxTitle characters
Titles == UNION { [1..k -> Chars] : k \in 0..MaxTitle }

SafeNameInit ==
  /\ NoRun /\ NoFetch /\ NoAttempt
  /\ title \in Titles /\ name = << >> /\ calls = 0

\* safe_name(title), and safe_name of what it returned
SafeNameCall ==
  /\ calls < 2
  /\ name' = safe_name(IF calls = 0 THEN title ELSE name)
  /\ calls' = calls + 1
  /\ UNCHANGED << runvars, fetchvars, attvars, title >>

SafeNameNext == SafeNameCall

SpecSafeName == SafeNameInit /\ [][SafeNameNext]_vars

(* ====== download_m3u8_files.py: download_m3u8, rewrite_m3u8 ====== *)

\* most lines of a manifest of the download of one job
MaxLines == 3

\* a line is a sequence of pieces of text; these are the pieces the program
\* looks for
SP == " "
ROOT == "#EXTM3U"
VERSION == "#EXT-X-VERSION"
VodLine == << "#EXT-X-PLAYLIST-TYPE:VOD" >>

\* lines a manifest may hold: root tag, version tag (also indented), absolute
\* path (also with whitespace after it), protocol-relative URI, relative
\* path, whitespace only, and a playlist-type tag of its own
LinePool ==
  { << ROOT >>,
    << VERSION, ":3" >>,
    << SP, VERSION, ":4" >>,
    << "/", "a.ts" >>,
    << "/", "b.ts", SP >>,
    << "/", "/", "cdn", "/", "a.ts" >>,
    << "a.ts" >>,
    << SP >>,
    VodLine }

\* what a server may send as the body: text of at most MaxLines lines, or
\* bytes that are no UTF-8
Bodies ==
  { [kind |-> "text", lines |-> l] :
       l \in UNION { [1..k -> LinePool] : k \in 0..MaxLines } }
    \cup { [kind |-> "binary", lines |-> << >>] }

\* line.startswith(prefix)
StartsWith(line, prefix) ==
  Len(line) >= Len(prefix) /\ SubSeq(line, 1, Len(prefix)) = prefix

\* line.strip()
Strip(line) == StripChar(line, SP)

\* list.insert(i, x), i counted from 0: at the end when the list is shorter
ListInsert(l, i, x) ==
  IF i >= Len(l) THEN Append(l, x)
  ELSE SubSeq(l, 1, i) \o << x >> \o SubSeq(l, i + 1, Len(l))

\* IsAbsPath that takes a protocol-relative URI for a path
IsAbsPathLoose(line) == StartsWith(line, << "/" >>)

\* line.startswith("/") and not line.startswith("//")
IsAbsPath(line) ==
  StartsWith(line, << "/" >>) /\ ~StartsWith(line, << "/", "/" >>)

\* the for loop of rewrite_m3u8 from line i on (i counted from 1)
RECURSIVE RewriteLoop(_, _, _, _, _)
RewriteLoop(lines, h, i, out, vod_inserted) ==
  IF i > Len(lines) THEN [out |-> out, vod_inserted |-> vod_inserted]
  ELSE LET line == Strip(lines[i]) IN
    IF i = 1 /\ line = << ROOT >>
      THEN RewriteLoop(lines, h, i + 1, Append(out, line), vod_inserted)
    ELSE IF ~vod_inserted /\ StartsWith(line, << VERSION >>)
      THEN RewriteLoop(lines, h, i + 1, out \o << line, VodLine >>, TRUE)
    ELSE IF IsAbsPath(line)
      THEN RewriteLoop(lines, h, i + 1, Append(out, h \o line), vod_inserted)
    ELSE RewriteLoop(lines, h, i + 1, Append(out, line), vod_inserted)

\* Fallback inserting the tag in front
FallbackFront(out) == ListInsert(out, 0, VodLine)

\* if not vod_inserted: out.insert(1, "#EXT-X-PLAYLIST-TYPE:VOD")
Fallback(out) == ListInsert(out, 1, VodLine)

\* the lines rewrite_m3u8(path, host) writes for the lines it read
rewrite_m3u8(lines, h) ==
  LET r == RewriteLoop(lines, h, 1, << >>, FALSE)
  IN IF ~r.vod_inserted THEN Fallback(r.out) ELSE r.out

\* f"{parsed.scheme}://{parsed.netloc}"
HostOf(u) == << u.scheme, "://", u.netloc >>

\* status codes of a response: 200, another 2xx code, and an error code
Statuses == {200, 206, 404}

\* what session.get / resp.read() can come to: a response with a status, or
\* an exception of the transport
Responses ==
  { [kind |-> "status", status |-> c] : c \in Statuses }
    \cup { [kind |-> "transport", status |-> 0] }

\* IsFailure that takes every status but 404 for a success
IsFailureOnly404(resp) == resp.kind = "transport" \/ resp.status = 404

\* the attempt raises: an exception of the transport, or
\* "if resp.status != 200: raise aiohttp.ClientError"
IsFailure(resp) == resp.kind = "transport" \/ resp.status # 200

\* manifest URLs of the job
FetchUrls == { Url("https", "d1"), Url("http", "d2") }

\* process_episode of the download run for one job with a manifest URL, from
\* the call of download_m3u8 on; the file at outpath may be there from an
\* earlier run
FetchInit ==
  /\ NoRun /\ NoSafeName /\ NoAttempt
  /\ f_pc = "get" /\ url \in FetchUrls /\ attempt = 0
  /\ outfile \in { [state |-> "absent"], [state |-> "old"] }
  /\ host = << >> /\ f_result = "absent" /\ gets = 0 /\ slept = 0
  /\ response = [kind |-> "none", status |-> 0]

\* session.get answered 200 and the body was read: the body is written to
\* outpath and download_m3u8 returns host
HttpOk(resp, body) ==
  /\ f_pc = "get" /\ ~IsFailure(resp)
  /\ gets' = gets + 1
  /\ response' = resp
  /\ outfile' = [state |-> "raw", body |-> body]
  /\ host' = HostOf(url)
  /\ f_pc' = "rewrite"
  /\ UNCHANGED << runvars, namevars, attvars, url, attempt, f_result, slept >>

\* the attempt raised: "if attempt < RETRIES - 1" the jitter sleep comes
\* next, else the exception is raised to process_episode
HttpFail(resp) ==
  /\ f_pc = "get" /\ IsFailure(resp)
  /\ gets' = gets + 1
  /\ response' = resp
  /\ f_pc' = IF attempt < RETRIES - 1 THEN "sleep" ELSE "raised"
  /\ UNCHANGED << runvars, namevars, attvars, url, attempt, outfile, host,
                  f_result, slept >>

\* await asyncio.sleep(random.uniform(JITTER_MIN, JITTER_MAX)), then the
\* next attempt of the for loop
JitterSleep ==
  /\ f_pc = "sleep"
  /\ slept' = slept + 1
  /\ attempt' = attempt + 1
  /\ f_pc' = "get"
  /\ UNCHANGED << runvars, namevars, attvars, url, outfile, host, f_result,
                  gets, response >>

\* rewrite_m3u8(outpath, host) read the file, wrote its lines back rewritten,
\* and results[key] = True
RewriteOk ==
  /\ f_pc = "rewrite" /\ outfile.body.kind = "text"
  /\ outfile' = [state |-> "rewritten",
                 lines |-> rewrite_m3u8(outfile.body.lines, host)]
  /\ f_result' = "True"
  /\ f_pc' = "done"
  /\ UNCHANGED << runvars, namevars, attvars, url, attempt, host, gets, slept, response >>

\* f.read() raised (the bytes are no UTF-8): except Exception,
\* results[key] = False
RewriteRaise ==
  /\ f_pc = "rewrite" /\ outfile.body.kind = "binary"
  /\ f_result' = "False"
  /\ f_pc' = "done"
  /\ UNCHANGED << runvars, namevars, attvars, url, attempt, outfile, host,
                  gets, slept, response >>

\* download_m3u8 raised: except Exception, results[key] = False
FetchExcept ==
  /\ f_pc = "raised"
  /\ f_result' = "False"
  /\ f_pc' = "done"
  /\ UNCHANGED << runvars, namevars, attvars, url, attempt, outfile, host,
                  gets, slept, response >>

FetchNext ==
  \/ f_pc = "get" /\ \E resp \in Responses : \E body \in Bodies :
                        HttpOk(resp, body)
  \/ \E resp \in Responses : HttpFail(resp)
  \/ JitterSleep
  \/ RewriteOk
  \/ RewriteRaise
  \/ FetchExcept

SpecFetch == FetchInit /\ [][FetchNext]_vars

(* ======================= properties ======================= *)

MinConcurrency == IF prog = "extract" THEN EX_MIN_CONCURRENCY ELSE DL_MIN_CONCURRENCY
MaxConcurrency == IF prog = "extract" THEN EX_MAX_CONCURRENCY ELSE DL_MAX_CONCURRENCY
InitialConcurrency ==
  IF prog = "extract" THEN EX_INITIAL_CONCURRENCY ELSE DL_INITIAL_CONCURRENCY
ConcurrencyStep == IF prog = "extract" THEN EX_CONCURRENCY_STEP ELSE DL_CONCURRENCY_STEP
MaxPasses == IF prog = "extract" THEN EX_MAX_PASSES ELSE DL_MAX_PASSES

\* the job's results entry says it is resolved / downloaded
JobOk(j) == IF prog = "extract" THEN results[j].kind = "dict" ELSE dl_results[j] = "True"

\* the run is over: adaptive_runner returned, or raised out of gather
RunOver == r_pc \in {"done", "crashed"}

RECURSIVE SumTo(_, _)
SumTo(f, n) == IF n = 0 THEN 0 ELSE f[n] + SumTo(f, n - 1)

\* C1: in both runners the budget stays within [MIN_CONCURRENCY,
\* MAX_CONCURRENCY] in every reachable state, MIN_CONCURRENCY is at least 1
\* and the initial budget lies strictly between the two limits.
C1_BudgetBounds ==
  /\ MinConcurrency >= 1
  /\ MinConcurrency < InitialConcurrency /\ InitialConcurrency < MaxConcurrency
  /\ MinConcurrency <= concurrency /\ concurrency <= MaxConcurrency

\* the extraction run has backed off to the floor and then failed a pass
\* again at the floor
C1_Witness ==
  /\ prog = "extract" /\ r_pc = "done" /\ passes = EX_MAX_PASSES
  /\ concurrency = EX_MIN_CONCURRENCY /\ pending # << >>

\* C2: the step that ends a pass with counts (attempted, succeeded) changes
\* the budget exactly by the AIMD rule (+step on a clean pass below max,
\* -step on a pass with a failure above min, else nothing); no pass is empty
\* and no other step changes the budget.
C2_AIMD ==
  [][ IF r_pc = "gather" /\ r_pc' = "loop"
        THEN LET attempted == Len(pending)
                 succeeded == Cardinality({ j \in Range(pending) : JobOk(j) })
             IN /\ attempted > 0
                /\ concurrency' =
                     IF succeeded = attempted /\ concurrency < MaxConcurrency
                       THEN concurrency + ConcurrencyStep
                     ELSE IF succeeded < attempted /\ concurrency > MinConcurrency
                       THEN concurrency - ConcurrencyStep
                     ELSE concurrency
        ELSE concurrency' = concurrency ]_vars

\* the download run after two passes with a failure each
C2_Witness ==
  /\ prog = "download" /\ r_pc = "loop" /\ passes = 2
  /\ concurrency = DL_INITIAL_CONCURRENCY - 2 * DL_CONCURRENCY_STEP

\* C3: every job is attempted at most once per pass and at most MAX_PASSES
\* times, the attempts of all jobs sum to at most |jobs| x MAX_PASSES, and a
\* job never has two attempts at once: it is in pending at most once and no
\* coroutine of a pass is left when the next pass is set up.
C3_AttemptBound ==
  /\ \A j \in Jobs : attempts[j] <= passes /\ attempts[j] <= MaxPasses
  /\ SumTo(attempts, Len(episodes)) <= Len(episodes) * MaxPasses
  /\ Cardinality(Range(pending)) = Len(pending)
  /\ r_pc \in {"loop", "done"} => \A j \in Jobs : t_pc[j] = "idle"

\* a job was attempted in every one of the MAX_PASSES passes
C3_Witness ==
  /\ r_pc = "done" /\ Len(episodes) >= 2
  /\ \E j \in Jobs : attempts[j] = MaxPasses
  /\ \E j \in Jobs : attempts[j] = 1


\* steps a coroutine of job j can still take
TaskRank(j) ==
  CASE t_pc[j] = "wait" -> Len(players[j]) + 4
    [] t_pc[j] = "newpage" -> Len(players[j]) + 3
    [] t_pc[j] = "try" -> Len(ordered[j]) - pos[j] + 3
    [] t_pc[j] = "fetch" -> 2
    [] t_pc[j] \in {"close", "close_exc"} -> 1
    [] OTHER -> 0

RunnerRank == CASE r_pc = "gather" -> 2 [] r_pc = "loop" -> 1 [] OTHER -> 0

\* more than the steps of one pass: the runner's two and every job's
PassWork == 3 + (MaxEpisodes + MaxJobs) * (MaxCands + 4)

\* a bound on the steps the run can still take: passes left first, then the
\* steps left in the pass under way
Measure ==
  (MaxPasses - passes) * PassWork + RunnerRank
    + SumTo([j \in Jobs |-> TaskRank(j)], Len(episodes))

\* C4: adaptive_runner terminates when every awaited operation comes back:
\* until the run is over some step is possible, and every step lowers a
\* bound that is never negative, so no run goes on forever; a normal return
\* has pending empty or passes = MAX_PASSES, and no pass is run on an empty
\* pending list or beyond MAX_PASSES. (A resolution that raises ends the run
\* at once: r_pc = "crashed".)
C4_Terminates ==
  /\ [](RunOver \/ ENABLED Next)
  /\ [](Measure >= 0)
  /\ [][Measure' < Measure]_vars
  /\ [](r_pc = "done" => (pending = << >> \/ passes = MaxPasses))
  /\ [](r_pc = "gather" => (pending # << >> /\ passes <= MaxPasses))

\* C4, as a property of the fair runs: the run is eventually over, and a
\* normal return has pending empty or passes = MAX_PASSES
C4_Eventually ==
  <>(r_pc = "crashed"
       \/ (r_pc = "done" /\ (pending = << >> \/ passes = MaxPasses)))

\* the download run stopped early, after three passes, with nothing pending
C4_Witness ==
  /\ prog = "download" /\ r_pc = "done" /\ pending = << >> /\ passes = 3
  /\ Len(episodes) >= 3

\* C5: at every instant of a pass the jobs inside the semaphore-guarded
\* section number at most the budget the pass started with (concurrency is
\* not written during a pass); slots in use and free slots add up to that
\* budget, so the other jobs of the pass are the ones still waiting.
C5_ConcurrencyBound ==
  /\ Cardinality(Active) <= concurrency
  /\ sema >= 0
  /\ r_pc \in {"gather", "crashed"} => Cardinality(Active) + sema = concurrency
  /\ r_pc \in {"loop", "done"} => Active = {}

\* every slot of the pass is taken and a job of the pass waits for one
C5_Witness ==
  /\ prog = "extract" /\ r_pc = "gather"
  /\ Cardinality(Active) = concurrency /\ sema = 0
  /\ \E j \in Jobs : t_pc[j] = "wait"
  /\ \E j \in Jobs : t_pc[j] = "try" /\ page[j]

\* C6: the step that ends pass n leaves in pending exactly the jobs of pass n
\* that failed in it (each wrote its result in that pass), in the same order;
\* the jobs' candidate lists and catalog entries never change; a job that is
\* out of pending stays out, and a job with a good result is not attempted
\* again.
C6_Requeue ==
  [][ /\ (r_pc = "gather" /\ r_pc' = "loop") =>
           /\ \A j \in Range(pending) : writes[j] = 1
           /\ pending' = SelectSeq(pending, LAMBDA j : ~JobOk(j))
      /\ (r_pc = "gather" /\ r_pc' = "loop") \/ pending' = pending
      /\ players' = players /\ info' = info
      /\ \A j \in Jobs : j \notin Range(pending) => j \notin Range(pending')
      /\ \A j \in Jobs : (JobOk(j) /\ t_pc[j] = "idle") =>
                             (attempts'[j] = attempts[j] /\ t_pc'[j] = "idle")
    ]_vars

\* after two passes one job is resolved and out, another is still pending
C6_Witness ==
  /\ prog = "extract" /\ r_pc = "gather" /\ passes = 3
  /\ \E j \in Jobs : JobOk(j) /\ j \notin Range(pending) /\ attempts[j] = 2
  /\ \E j \in Jobs : j \in Range(pending) /\ attempts[j] = 3

\* every candidate of job j timed out in every attempt made: the job
\* finished an attempt unresolved, never got a manifest and never raised
AlwaysTimesOut(j) ==
  /\ prog = "extract" /\ players[j] # << >>
  /\ results[j] = NullR
  /\ t_pc[j] \notin {"close_exc", "raised"}

\* C7: once the run is over, a job whose candidates always time out has been
\* attempted exactly MAX_PASSES (5) times and is recorded None, the run has
\* completed normally, and every job of the catalog has a result that is
\* resolved or None.
C7_Exhaustion ==
  \A j \in Jobs :
    (RunOver /\ AlwaysTimesOut(j)) =>
      /\ r_pc = "done"
      /\ attempts[j] = EX_MAX_PASSES
      /\ results[j] = NullR
      /\ \A k \in Jobs : results[k].kind \in {"dict", "null"}

\* C8: an attempt of a job that has ended has written the job's result
\* exactly once, an attempt under way at most once, and a resolved result is
\* never replaced.
C8_WriteOnce ==
  [][ /\ \A j \in Jobs :
           /\ t_pc'[j] \in {"done", "raised", "cancelled"} => writes'[j] = 1
           /\ writes'[j] <= 1
      /\ \A j \in Jobs : results[j].kind = "dict" => results'[j] = results[j]
    ]_vars

LabelsOf(cands) == [k \in 1..Len(cands) |-> cands[k].label]

\* the candidates whose cached label for their origin is their own label
Hits(cands, cache) ==
  { i \in 1..Len(cands) : cache[cands[i].url.netloc] = cands[i].label }

\* C9: when process_episode computes its attempt order from a candidate list
\* and a cache, the first candidate (in original order) whose cached label
\* for its origin is its own label stands first and all others keep their
\* relative order; with no such candidate the order is the original one; and
\* [A, B, C] with only origin(B) -> "B" cached gives [B, A, C].
C9_AttemptOrder ==
  [][ \A j \in Jobs :
        (t_pc[j] = "newpage" /\ t_pc'[j] # "newpage") =>
          LET cands == players[j]
              hits == Hits(cands, domain_cache)
              new == ordered'[j]
          IN /\ Len(new) = Len(cands)
             /\ hits = {} => new = cands
             /\ hits # {} =>
                  \E i \in hits :
                    /\ \A k \in hits : i <= k
                    /\ new[1] = cands[i]
                    /\ \A k \in 1..(i - 1) : new[k + 1] = cands[k]
                    /\ \A k \in (i + 1)..Len(cands) : new[k] = cands[k]
             /\ ( /\ LabelsOf(cands) = << "A", "B", "C" >>
                  /\ domain_cache = [d \in Netlocs |->
                        IF d = cands[2].url.netloc THEN "B" ELSE None] )
                  => LabelsOf(new) = << "B", "A", "C" >>
    ]_vars

\* the spec's example: [A, B, C] with only origin(B) -> "B" cached is tried
\* as B, A, C
C9_Witness ==
  /\ t_pc[1] = "try" /\ pos[1] = 1
  /\ LabelsOf(players[1]) = << "A", "B", "C" >>
  /\ Hits(players[1], domain_cache) = {2}
  /\ \A d \in Netlocs : d # players[1][2].url.netloc => domain_cache[d] = None
  /\ LabelsOf(ordered[1]) = << "B", "A", "C" >>

\* C10: the step in which a candidate produces a manifest URL records that
\* URL and that candidate's label as the job's result, sets the cache entry
\* of the candidate's origin to its label and nothing else, and ends the
\* candidate loop (no later candidate is tried); the loop moves on, one
\* candidate at a time, only from a candidate that produced nothing; no
\* other step writes the cache.
C10_FirstWins ==
  [][ /\ \A j \in Jobs :
           (results'[j] # results[j] /\ results'[j].kind = "dict") =>
             LET cand == ordered[j][pos[j]]
             IN /\ t_pc[j] = "try"
                /\ m3u8'[j] \in M3U8Urls
                /\ results'[j] = [kind |-> "dict", m3u8_url |-> m3u8'[j],
                                  player_used |-> cand.label]
                /\ domain_cache' = [domain_cache EXCEPT
                                      ![cand.url.netloc] = cand.label]
                /\ t_pc'[j] = "close" /\ pos'[j] = pos[j]
      /\ \A j \in Jobs :
           (t_pc[j] = "try" /\ t_pc'[j] = "try" /\ pos'[j] # pos[j]) =>
              /\ pos'[j] = pos[j] + 1 /\ m3u8'[j] = None
              /\ results[j].kind # "dict" /\ results'[j] = results[j]
              /\ domain_cache' = domain_cache
      /\ \A j \in Jobs : t_pc[j] \in {"close", "close_exc"} => t_pc'[j] # "try"
      /\ domain_cache' # domain_cache =>
           \E j \in Jobs : results'[j] # results[j] /\ results'[j].kind = "dict"
    ]_vars

\* a job won with its second candidate after the first one timed out
C10_Witness ==
  \E j \in Jobs :
    /\ t_pc[j] = "close" /\ pos[j] = 2 /\ results[j].kind = "dict"
    /\ results[j].player_used = ordered[j][2].label
    /\ results[j].m3u8_url = m3u8[j]
    /\ domain_cache[ordered[j][2].url.netloc] = ordered[j][2].label

(* ============ the candidate loop as a function of the outcomes ============ *)

\* what one call extract_m3u8(page, url) can come to: a manifest URL is
\* returned, None is returned (timeout), or an exception that is no timeout
\* leaves the call
Outcomes == {"m3u8", "none", "error"}

\* the for loop of process_episode over ord from candidate k on, when the
\* candidate labelled l comes to site[l]: the job ends "resolved" at the first
\* manifest, "raised" at the first exception, "unresolved" after the last
\* candidate
RECURSIVE TryFrom(_, _, _)
TryFrom(ord, site, k) ==
  IF k > Len(ord) THEN "unresolved"
  ELSE IF site[ord[k].label] = "m3u8" THEN "resolved"
  ELSE IF site[ord[k].label] = "error" THEN "raised"
  ELSE TryFrom(ord, site, k + 1)

\* every content of the affinity cache
Caches == [Netlocs -> Labels \cup {None}]

\* s is t with its elements in another order
IsPermutation(s, t) ==
  /\ Len(s) = Len(t)
  /\ \E f \in [1..Len(s) -> 1..Len(s)] :
       /\ \A a, b \in 1..Len(s) : f[a] = f[b] => a = b
       /\ \A a \in 1..Len(s) : s[a] = t[f[a]]

\* C11: the cache only changes the order of the attempts. When a job computes
\* its attempt order, whatever each of its candidates comes to (fixed per
\* candidate), the job resolves under the order any cache content gives
\* exactly when it resolves under the original order; the order is a
\* permutation of the job's candidates, whatever other jobs wrote to the
\* cache meanwhile; and None is recorded only from the last candidate of
\* that order.
C11_CacheHeuristic ==
  [][ \A j \in Jobs :
        /\ (t_pc[j] = "newpage" /\ t_pc'[j] \in {"try", "close"}) =>
             /\ IsPermutation(ordered'[j], players[j])
             /\ \A site \in [{ c.label : c \in Range(players[j]) } -> Outcomes] :
                  \A cache \in Caches :
                    (TryFrom(Prioritize(players[j], cache), site, 1) = "resolved")
                      <=> (TryFrom(players[j], site, 1) = "resolved")
        /\ (t_pc[j] = "try" /\ results'[j] = NullR /\ writes'[j] # writes[j]) =>
             /\ pos[j] = Len(ordered[j])
             /\ IsPermutation(ordered[j], players[j])
    ]_vars

\* the characters of s that are in [a-zA-Z0-9], in order
AlnumOf(s) == SelectSeq(s, IsAlnum)

\* the maximal runs of characters outside [a-zA-Z0-9] of s that have a
\* character of [a-zA-Z0-9] on both sides, by the index they start at
InnerRuns(s) ==
  { i \in 2..Len(s) : /\ ~IsAlnum(s[i]) /\ IsAlnum(s[i - 1])
                      /\ \E k \in (i + 1)..Len(s) : IsAlnum(s[k]) }

\* C16: safe_name(title) holds only characters of [A-Za-z0-9_], neither
\* starts nor ends with an underscore, keeps the characters of [A-Za-z0-9] of
\* the title in order and has one underscore, never two in a row, for every
\* run of other characters between them; and safe_name applied to what
\* safe_name returned returns it unchanged.
C16_SafeName ==
  /\ [](calls >= 1 =>
          /\ \A i \in 1..Len(name) : IsAlnum(name[i]) \/ name[i] = "_"
          /\ name # << >> => (name[1] # "_" /\ name[Len(name)] # "_")
          /\ \A i \in 1..(Len(name) - 1) : ~(name[i] = "_" /\ name[i + 1] = "_")
          /\ AlnumOf(name) = AlnumOf(title)
          /\ Len(name) = Len(AlnumOf(title)) + Cardinality(InnerRuns(title)))
  /\ [][calls = 1 => name' = name]_vars

\* " a-Z" became "a_Z", and "a_Z" again when safe_name was applied to it
C16_Witness ==
  /\ calls = 2 /\ title = << " ", "a", "-", "Z" >> /\ name = << "a", "_", "Z" >>

\* the step in which rewrite_m3u8 rewrites the file
RewriteStep == f_pc = "rewrite" /\ f_pc' = "done" /\ f_result' = "True"

\* s without its element at position p
Drop(s, p) == SubSeq(s, 1, p - 1) \o SubSeq(s, p + 1, Len(s))

Least(S) == CHOOSE i \in S : \A k \in S : i <= k

\* the spec's two manifests
WithVersion == << << ROOT >>, << VERSION, ":3" >>, << "/", "a.ts" >> >>
WithoutVersion == << << ROOT >>, << "/", "a.ts" >> >>

\* C12 as stated: rewrite inserts the playlist-type line once, right after
\* the first input line that begins with the version tag if there is one,
\* else as the second line (index 1) of the output; the output has one line
\* more than the input; and the two manifests of the spec come out as the
\* spec says.
C12_AsStated ==
  [][ RewriteStep =>
        LET in == outfile.body.lines
            out == outfile'.lines
            vs == { i \in 1..Len(in) : StartsWith(in[i], << VERSION >>) }
            p == IF vs # {} THEN Least(vs) + 1 ELSE 2
        IN /\ Len(out) = Len(in) + 1
           /\ p <= Len(out) /\ out[p] = VodLine
           /\ \A i \in 1..Len(in) :
                Drop(out, p)[i] = VodLine => Strip(in[i]) = VodLine
           /\ in = WithVersion =>
                out = << << ROOT >>, << VERSION, ":3" >>, VodLine,
                         host \o << "/", "a.ts" >> >>
           /\ in = WithoutVersion =>
                out = << << ROOT >>, VodLine, host \o << "/", "a.ts" >> >>
    ]_vars

\* C12, amended: rewrite inserts the playlist-type line once, right after
\* the first input line that begins with the version tag once the whitespace
\* around it is stripped, if there is one, else as the second line (index 1)
\* of the output, or as its only line when the input has no line; the output
\* has one line more than the input; and the two manifests of the spec come
\* out as the spec says.
C12_VodInsertion ==
  [][ RewriteStep =>
        LET in == outfile.body.lines
            out == outfile'.lines
            vs == { i \in 1..Len(in) : StartsWith(Strip(in[i]), << VERSION >>) }
            p == IF vs # {} THEN Least(vs) + 1
                 ELSE IF in = << >> THEN 1 ELSE 2
        IN /\ Len(out) = Len(in) + 1
           /\ p <= Len(out) /\ out[p] = VodLine
           /\ \A i \in 1..Len(in) :
                Drop(out, p)[i] = VodLine => Strip(in[i]) = VodLine
           /\ in = WithVersion =>
                out = << << ROOT >>, << VERSION, ":3" >>, VodLine,
                         host \o << "/", "a.ts" >> >>
           /\ in = WithoutVersion =>
                out = << << ROOT >>, VodLine, host \o << "/", "a.ts" >> >>
    ]_vars

\* the manifest with a version tag, rewritten for https://d1
C12_Witness ==
  /\ f_pc = "done"
  /\ outfile = [state |-> "rewritten",
                lines |-> << << ROOT >>, << VERSION, ":3" >>, VodLine,
                             << "https", "://", "d1", "/", "a.ts" >> >>]

\* the line begins with "/" and goes on with something else than "/"
OneSlash(l) == l # << >> /\ l[1] = "/" /\ (Len(l) >= 2 => l[2] # "/")

\* C13 as stated: apart from the inserted playlist-type line, the output is
\* the input line by line, in order: a line that begins with "/" but not
\* with "//" with the host in front of it, every other line unchanged.
C13_AsStated ==
  [][ RewriteStep =>
        LET in == outfile.body.lines
            out == outfile'.lines
        IN \E p \in 1..Len(out) :
             /\ out[p] = VodLine
             /\ Len(out) = Len(in) + 1
             /\ \A i \in 1..Len(in) :
                  Drop(out, p)[i] = IF OneSlash(in[i]) THEN host \o in[i]
                                                        ELSE in[i]
    ]_vars

\* C13, amended: apart from the inserted playlist-type line, the output is
\* the input line by line, in order, each line stripped of the whitespace
\* around it: a stripped line that begins with "/" but not with "//" with
\* scheme://host of the manifest URL in front of it, every other stripped
\* line as it is.
C13_PathRewrite ==
  [][ RewriteStep =>
        LET in == outfile.body.lines
            out == outfile'.lines
        IN /\ host = << url.scheme, "://", url.netloc >>
           /\ \E p \in 1..Len(out) :
                /\ out[p] = VodLine
                /\ Len(out) = Len(in) + 1
                /\ \A i \in 1..Len(in) :
                     Drop(out, p)[i] =
                       IF OneSlash(Strip(in[i])) THEN host \o Strip(in[i])
                                                  ELSE Strip(in[i])
    ]_vars

\* an absolute path got the host in front, a protocol-relative URI did not
C13_Witness ==
  /\ f_pc = "done" /\ f_result = "True" /\ url = Url("http", "d2")
  /\ outfile.lines = << << "http", "://", "d2", "/", "a.ts" >>, VodLine,
                        << "/", "/", "cdn", "/", "a.ts" >> >>

\* the step in which one session.get comes back
GetStep == f_pc = "get" /\ gets' = gets + 1

\* the response is a status of the 2xx class
Is2xx(r) == r.kind = "status" /\ r.status >= 200 /\ r.status <= 299

\* C14 as stated: one call of download_m3u8 makes at most RETRIES attempts;
\* an attempt answered with a 2xx status returns at once and no attempt
\* follows; an attempt that fails (non-2xx status or transport error) is
\* followed by one jitter sleep and the next attempt, except the last one,
\* whose failure is raised to process_episode (results[key] = False) with
\* the file at outpath left as it was before the call.
C14_AsStated ==
  /\ [](gets <= RETRIES /\ slept <= gets)
  /\ [][ /\ GetStep =>
              IF Is2xx(response')
                THEN f_pc' = "rewrite" /\ slept' = slept
                ELSE IF gets' < RETRIES
                  THEN f_pc' = "sleep" /\ outfile' = outfile
                  ELSE /\ f_pc' = "raised"
                       /\ outfile' = outfile /\ outfile.state \in {"absent", "old"}
         /\ f_pc = "sleep" => (f_pc' = "get" /\ slept' = slept + 1 /\ gets' = gets)
         /\ f_pc = "raised" => (f_result' = "False" /\ outfile' = outfile)
         /\ f_pc \in {"rewrite", "done", "raised"} => f_pc' # "get"
     ]_vars

\* C14, amended: one call of download_m3u8 makes at most RETRIES attempts; an
\* attempt answered with status 200 returns at once and no attempt follows;
\* an attempt that fails (any other status, or a transport error) is
\* followed by one jitter sleep and the next attempt, except the last one,
\* whose failure is raised to process_episode (results[key] = False) with
\* the file at outpath left as it was before the call.
C14_Retries ==
  /\ [](gets <= RETRIES /\ slept <= gets)
  /\ [][ /\ GetStep =>
              IF response'.kind = "status" /\ response'.status = 200
                THEN f_pc' = "rewrite" /\ slept' = slept
                ELSE IF gets' < RETRIES
                  THEN f_pc' = "sleep" /\ outfile' = outfile
                  ELSE /\ f_pc' = "raised"
                       /\ outfile' = outfile /\ outfile.state \in {"absent", "old"}
         /\ f_pc = "sleep" => (f_pc' = "get" /\ slept' = slept + 1 /\ gets' = gets)
         /\ f_pc = "raised" => (f_result' = "False" /\ outfile' = outfile)
         /\ f_pc \in {"rewrite", "done", "raised"} => f_pc' # "get"
     ]_vars

\* the third attempt failed too: two sleeps, the job is recorded False and
\* the file of an earlier run is still there
C14_Witness ==
  /\ f_pc = "done" /\ f_result = "False" /\ gets = RETRIES /\ slept = RETRIES - 1
  /\ response.kind = "transport" /\ outfile = [state |-> "old"]

\* pass 1 of a catalog of two jobs with two candidates each is over: job a
\* resolved via its second candidate, job b failed both of its candidates
Scenario(a, b) ==
  /\ prog = "extract" /\ Len(episodes) = 2 /\ a # b
  /\ Len(players[a]) = 2 /\ Len(players[b]) = 2
  /\ passes = 1 /\ r_pc = "loop"
  /\ results[a].kind = "dict" /\ results[a].player_used = players[a][2].label
  /\ results[b] = NullR

\* C15: in the scenario the budget is one step below the initial budget, the
\* pending list is exactly the failed job, the cache maps the origin of the
\* winning second candidate to its label, and pass 2 runs the failed job and
\* nothing else.
C15_Scenario ==
  /\ [](\A a, b \in Jobs :
          Scenario(a, b) =>
            /\ concurrency = EX_INITIAL_CONCURRENCY - EX_CONCURRENCY_STEP
            /\ pending = << b >>
            /\ domain_cache[players[a][2].url.netloc] = players[a][2].label)
  /\ [][ \A a, b \in Jobs :
           (Scenario(a, b) /\ passes' = 2) =>
             /\ t_pc'[b] = "wait" /\ attempts'[b] = 2
             /\ t_pc'[a] = "idle" /\ attempts'[a] = 1 ]_vars

\* the scenario with job 1 resolved via B on d2 and job 2 failed
C15_Witness ==
  /\ Scenario(1, 2)
  /\ results[1].player_used = "B" /\ domain_cache["d2"] = "B"
  /\ concurrency = 3 /\ pending = << 2 >>

\* C17: a candidate that yields no manifest, by timeout or by a navigation
\* error, only makes the job go on to its next candidate, or record None
\* after its last one: no exception leaves process_episode, gather never
\* raises, no coroutine is cancelled, and when the run is over every job of
\* the catalog has a result.
C17_Recovered ==
  /\ [](/\ r_pc # "crashed"
        /\ \A j \in Jobs : t_pc[j] \notin {"close_exc", "raised", "cancelled"}
        /\ (prog = "extract" /\ RunOver) =>
              \A j \in Jobs : results[j].kind \in {"dict", "null"})
  /\ [][ \A j \in Jobs :
           (t_pc[j] = "try" /\ results'[j].kind # "dict"
              /\ << t_pc'[j], pos'[j] >> # << t_pc[j], pos[j] >>) =>
             IF pos[j] < Len(ordered[j])
               THEN t_pc'[j] = "try" /\ pos'[j] = pos[j] + 1
               ELSE t_pc'[j] = "close" /\ results'[j] = NullR ]_vars

\* C18: the budget and the pending list are written only by the step that
\* ends a pass, and that step is taken when every job of the pass has
\* returned with its result of this pass written and no job holds a slot;
\* a pass is started only when no coroutine of an earlier pass is left.
C18_Sequential ==
  [][ /\ (concurrency' # concurrency \/ pending' # pending) =>
           /\ r_pc = "gather" /\ r_pc' = "loop"
           /\ \A j \in Range(pending) : t_pc[j] = "done" /\ writes[j] = 1
           /\ \A j \in Jobs : t_pc[j] \in {"done", "idle"}
           /\ Active = {}
      /\ passes' # passes =>
           /\ passes' = passes + 1
           /\ \A j \in Jobs : t_pc[j] = "idle"
           /\ Active = {}
    ]_vars

\* pass 2 of the download run under way with the budget pass 1 left, one job
\* back with its result while another still holds a slot
C18_Witness ==
  /\ prog = "download" /\ r_pc = "gather" /\ passes = 2
  /\ concurrency = DL_INITIAL_CONCURRENCY - DL_CONCURRENCY_STEP
  /\ \E j \in Jobs : t_pc[j] = "done" /\ writes[j] = 1
  /\ \E j \in Jobs : t_pc[j] = "fetch"

\* the jobs whose page is open
OpenPages == { j \in Jobs : page[j] }

\* C19: a job's page is opened by the new_page() of its process_episode call
\* and by nothing else, stays open through all of its candidates, and is
\* closed when the call ends, whether it resolved, ran out of candidates or
\* raised; so a job has a page exactly while it is past new_page() inside the
\* semaphore, the open pages never number more than the budget, and none is
\* open between passes or after the run.
C19_OnePage ==
  /\ [](/\ Cardinality(OpenPages) <= concurrency
        /\ r_pc \in {"loop", "done"} => OpenPages = {}
        /\ \A j \in Jobs : page[j] <=> t_pc[j] \in {"try", "close", "close_exc"})
  /\ [][ \A j \in Jobs :
           /\ (~page[j] /\ page'[j]) => t_pc[j] = "newpage"
           /\ (t_pc[j] = "try" /\ t_pc'[j] \in {"try", "close", "close_exc"})
                => page'[j]
           /\ (page[j] /\ ~page'[j]) => t_pc'[j] \in {"done", "raised", "cancelled"}
           /\ t_pc'[j] \in {"done", "raised", "cancelled"} => ~page'[j]
    ]_vars

\* one job returned with an exception and its page closed while another
\* job's page is still open
C19_Witness ==
  /\ \E j \in Jobs : t_pc[j] = "raised" /\ ~page[j]
  /\ \E j \in Jobs : t_pc[j] = "try" /\ page[j] /\ pos[j] = 2

\* the manifest requests among the observed ones, in order
Manifests(reqs) == SelectSeq(reqs, LAMBDA u : u[Len(u)] = ".m3u8")

\* the listener is attached before navigation begins and while the attempt
\* runs, and detached once it has concluded
ListenerScoped ==
  /\ a_pc \in {"goto", "settle", "click", "wait"} => listener
  /\ a_pc \in {"start", "returned"} => ~listener

\* C20: in one candidate attempt the listener is attached before navigation
\* begins and detached when the attempt concludes (success, timeout or
\* error); if a manifest request was observed before the attempt's timeout
\* elapsed the attempt returns the first such request's URL, and it returns
\* "none" only if no such request was observed
C20_FirstRequest ==
  /\ ListenerScoped
  /\ a_pc = "returned" =>
       /\ Manifests(seen) # << >> =>
            ret = [kind |-> "url", url |-> Manifests(seen)[1]]
       /\ ret.kind = "none" => Manifests(seen) = << >>

\* every extract_m3u8 call of the calls in progress or last made
AllTried == UNION { Range(tried[j]) : j \in Jobs }

\* the escalating policy: a first attempt on a candidate that was followed by
\* another attempt (it timed out) was followed by a second attempt on the
\* same candidate with a longer timeout, and no candidate has a third
Escalates(t) ==
  /\ \A i \in 1..(Len(t) - 1) :
       (i = 1 \/ t[i - 1].label # t[i].label) =>
          t[i + 1].label = t[i].label /\ t[i].wait < t[i + 1].wait
  /\ \A i \in 1..(Len(t) - 2) : ~(t[i].label = t[i + 1].label /\
                                    t[i].label = t[i + 2].label)

\* the variant policy: every candidate is tried once, the promoted candidate
\* with a shorter timeout than any candidate that is not promoted
OneClass ==
  /\ \A j \in Jobs : \A a, b \in 1..Len(tried[j]) :
       tried[j][a].label = tried[j][b].label => a = b
  /\ \A x, y \in AllTried : (x.promoted /\ ~y.promoted) => x.wait < y.wait

Skipped == { j \in Jobs : info[j] # "url" }

\* between two passes of the download run, or after the last one
BetweenPasses == prog = "download" /\ r_pc \in {"loop", "done"} /\ passes >= 1

\* the step that ends a pass of the download run
EndOfPass == prog = "download" /\ r_pc = "gather" /\ r_pc' = "loop"

\* what C22 says of the jobs without manifest URL and of the passes of a run
\* that has one
SkippedJobs ==
  /\ [](prog = "download" =>
         /\ \A j \in Skipped :
              /\ t_pc[j] # "fetch"
              /\ attempts[j] = passes
              /\ BetweenPasses =>
                   dl_results[j] = "False" /\ j \in Range(pending)
         /\ (Skipped # {} /\ r_pc = "done") => passes = DL_MAX_PASSES)
  /\ [][(EndOfPass /\ Skipped # {}) =>
          /\ concurrency' <= concurrency
          /\ concurrency' = IF concurrency > DL_MIN_CONCURRENCY
                              THEN concurrency - DL_CONCURRENCY_STEP
                              ELSE concurrency]_vars

\* C22 as stated: a job whose catalog entry is null or has no manifest URL is
\* never fetched, is marked failed in every pass and stays pending through
\* all MAX_PASSES passes; a run with such a job makes exactly MAX_PASSES
\* passes, none of them counts as fully successful and the budget goes down
\* by one step after every pass until it is MIN_CONCURRENCY; and every job
\* that downloaded successfully was attempted only once.
C22_AsStated ==
  /\ SkippedJobs
  /\ [](prog = "download" =>
          \A j \in Jobs : dl_results[j] = "True" => attempts[j] = 1)

\* C22, amended: a job whose catalog entry is null or has no manifest URL is
\* never fetched, is marked failed in every pass and stays pending through
\* all MAX_PASSES passes; a run with such a job makes exactly MAX_PASSES
\* passes, none of them counts as fully successful and the budget goes down
\* by one step after every pass until it is MIN_CONCURRENCY; and every job
\* that downloaded successfully is not attempted again after the pass in
\* which it succeeded.
C22_SkippedJobs ==
  /\ SkippedJobs
  /\ [](BetweenPasses =>
          \A j \in Jobs : dl_results[j] = "True" => j \notin Range(pending))
  /\ [][prog = "download" =>
          \A j \in Jobs : dl_results[j] = "True" =>
             attempts'[j] = attempts[j] /\ dl_results'[j] = "True"]_vars

\* the run of a catalog with an entry without manifest URL is over after
\* MAX_PASSES passes, the budget five steps down, and a job that failed in
\* pass 1 and succeeded in pass 2 was attempted twice
C22_Witness ==
  /\ prog = "download" /\ r_pc = "done" /\ passes = DL_MAX_PASSES
  /\ Skipped # {} /\ \A j \in Skipped : attempts[j] = DL_MAX_PASSES
  /\ concurrency = DL_INITIAL_CONCURRENCY - DL_MAX_PASSES * DL_CONCURRENCY_STEP
  /\ \E j \in Jobs : dl_results[j] = "True" /\ attempts[j] = 2

====
